---- MODULE Spec2Model ----
(***************************************************************************)
(* Derivation layer of the F1 dashboard front end.                         *)
(*                                                                         *)
(*  - Home page: the constructor standings are folded out of the driver    *)
(*    standings list (`standings.reduce(...)`, sorted and cut to three).   *)
(*    fetchData goes on to the schedule and quick-stats requests and       *)
(*    starts the one-second countdown interval; the page can be unmounted  *)
(*    at any point after its mount.                                        *)
(*  - Drivers page: fetchDriverData merges the drivers list with the       *)
(*    standings list and sorts the merged entries.                         *)
(*  - TireStrategyChart: the effect that turns the tire-strategy mapping   *)
(*    into chart datasets, and the view the component returns; renders     *)
(*    with a new data or raceName and the unmount, with the charts that    *)
(*    are created and destroyed.                                           *)
(*  - Races page: the schedule request, the selection of a race, the three *)
(*    round-scoped requests it starts, and the position chart data.  The   *)
(*    year selector is left at its initial value.                          *)
(*  - Schedule page: the schedule request, the year selector, the click on *)
(*    a race card with its race-results request, and the results modal.    *)
(*    State updates made in one continuation are rendered together         *)
(*    (automatic batching).                                                *)
(*  - Standings page: fetchStandings with its two awaits, and the year     *)
(*    selector.                                                            *)
(*                                                                         *)
(* Numeric fields hold naturals; a field the record does not carry (a      *)
(* JavaScript `undefined`) is the value Undefined and a `null` in a        *)
(* numeric field is the value Null.  An error state that is `null` is      *)
(* NoError.                                                                *)
(***************************************************************************)
EXTENDS Integers, Sequences, FiniteSets, TLC

VARIABLES
    homePc,            \* Home: position of the mount effect's fetchData
    homeResponse,      \* Home: body of the /standings response as received
    standings,         \* Home: useState([])  - the driver standings list
    homeLoading,       \* Home: useState(true)
    homeError,         \* Home: useState(null)
    constructorsShown, \* Home: the constructor cards rendered from standings
    driversPc,         \* Drivers: position of fetchDriverData
    driversResponse,   \* Drivers: body of the /drivers response as received
    standingsResponse, \* Drivers: body of the /standings response as received
    driversData,       \* Drivers: the parsed /drivers body after fetchDriverData
    standingsData,     \* Drivers: the parsed /standings body after fetchDriverData
    drivers,           \* Drivers: useState([])
    driversLoading,    \* Drivers: useState(true)
    driversError,      \* Drivers: useState(null)
    tirePc,            \* TireStrategyChart: "unmounted" or "mounted"
    tireData,          \* TireStrategyChart: the data prop
    tireDatasets,      \* TireStrategyChart: datasets built by the last effect run
    tireMaxLaps,       \* TireStrategyChart: maxLaps found by the last effect run
    chartInstance,     \* TireStrategyChart: chartInstance.current, <<>> for null
    liveCharts,        \* TireStrategyChart: ids of the charts created and not destroyed
    tireCleanup,       \* TireStrategyChart: the last effect run returned its cleanup
    tireRuns,          \* TireStrategyChart: number of renders with their effect so far
    racesPc,           \* Races: "unmounted" or "mounted"
    races,             \* Races: useState([])
    racesInflight,     \* Races: the /schedule request is awaiting its response
    selectedRace,      \* Races: useState(null), <<>> for null, else <<race>>
    selections,        \* Races: number of race selections made so far
    inflight,          \* Races: per kind and round, the requests awaiting a response
    positionData,      \* Races: useState(null), <<>> for null
    teamPaceData,      \* Races: useState(null), <<>> for null
    tireStrategyData,  \* Races: useState(null), <<>> for null
    loading,           \* Races: useState(false)
    loadingPace,       \* Races: useState(false)
    loadingStrategy,   \* Races: useState(false)
    error,             \* Races: useState(null)
    paceError,         \* Races: useState(null)
    strategyError,     \* Races: useState(null)
    schedulePc,        \* Schedule: "unmounted" or "mounted"
    scheduleYear,      \* Schedule: selectedYear, useState(2025)
    schedule,          \* Schedule: useState([])
    completedRaces,    \* Schedule: useState([])
    scheduleLoading,   \* Schedule: loading, useState(true)
    scheduleError,     \* Schedule: error, useState(null)
    scheduleFetches,   \* Schedule: per year, the /schedule requests awaiting a response
    clickedRace,       \* Schedule: selectedRace, useState(null), <<>> for null
    raceResults,       \* Schedule: useState(null), <<>> for null or undefined
    isModalOpen,       \* Schedule: useState(false)
    resultsInflight,   \* Schedule: per year and race, the /race-results requests awaiting a response
    clicks,            \* Schedule: number of clicks on race cards so far
    yearChanges,       \* Schedule: number of year changes so far
    selectedDriver,    \* Drivers: useState(null), <<>> for null, else <<driver>>
    driverStats,       \* Drivers: useState(null), <<>> for null
    loadingStats,      \* Drivers: useState(false)
    statsModalOpen,    \* Drivers: isModalOpen, useState(false)
    statsInflight,     \* Drivers: per driver name, the /driver-stats requests awaiting a response
    driverClicks,      \* Drivers: number of clicks on driver tiles so far
    standingsPc,          \* Standings: "unmounted" or "mounted"
    currentYear,          \* Standings: useState(2025)
    driverStandings,      \* Standings: useState([]), <<>> for []
    constructorStandings, \* Standings: useState([]), <<>> for []
    standingsLoading,     \* Standings: loading, useState(true)
    standingsError,       \* Standings: error, useState(null)
    standingsRuns,        \* Standings: per year and await, the fetchStandings runs suspended there
    standingsYearChanges, \* Standings: number of year changes so far
    homeRemoved,          \* Home: the component has been unmounted
    nextRaceData,         \* Home: fetchData's nextRaceData, <<>> for undefined
    nextRace,             \* Home: useState(null), <<>> for null and undefined
    countdown,            \* Home: useState({days: 0, hours: 0, minutes: 0, seconds: 0})
    countdownTimer,       \* Home: the interval of setInterval is running
    clock                 \* milliseconds on the clock that new Date() reads

homeVars == <<homePc, homeResponse, standings, homeLoading, homeError,
              constructorsShown>>
driversVars == <<driversPc, driversResponse, standingsResponse, driversData,
                 standingsData, drivers, driversLoading, driversError>>
tireVars == <<tirePc, tireData, tireDatasets, tireMaxLaps, chartInstance,
              liveCharts, tireCleanup, tireRuns>>
racesVars == <<racesPc, races, racesInflight, selectedRace, selections, inflight,
               positionData, teamPaceData, tireStrategyData,
               loading, loadingPace, loadingStrategy,
               error, paceError, strategyError>>
scheduleVars == <<schedulePc, scheduleYear, schedule, completedRaces,
                  scheduleLoading, scheduleError, scheduleFetches, clickedRace,
                  raceResults, isModalOpen, resultsInflight, clicks, yearChanges>>
statsVars == <<selectedDriver, driverStats, loadingStats, statsModalOpen,
               statsInflight, driverClicks>>
standingsPageVars == <<standingsPc, currentYear, driverStandings,
                       constructorStandings, standingsLoading, standingsError,
                       standingsRuns, standingsYearChanges>>
countdownVars == <<homeRemoved, nextRaceData, nextRace, countdown,
                   countdownTimer, clock>>
vars == <<homeVars, driversVars, tireVars, racesVars, scheduleVars, statsVars,
          standingsPageVars, countdownVars>>

Undefined == -1
Null == -2
NoError == "null"

\* ------------------------------------------------------------------------
\* Bounds of the model
\* ------------------------------------------------------------------------
MaxStandings == 4     \* longest driver standings list handed to the Home page
MaxDrivers == 2       \* longest /drivers response of the Drivers page
MaxFeed == 2          \* longest /standings response of the Drivers page
MaxStints == 2        \* longest stint list of one driver
MaxTicks == 2         \* seconds that pass on the clock of the Home page
MaxTireRuns == 4      \* renders of TireStrategyChart with a new data or raceName
MaxSelections == 2    \* race selections made on the Races page
MaxDriverClicks == 3  \* clicks on driver tiles of the Drivers page
MaxClicks == 3        \* clicks on race cards of the Schedule page
MaxYearChanges == 1   \* year changes made on the Schedule page
MaxStandingsYearChanges == 2   \* year changes made on the Standings page

\* ------------------------------------------------------------------------
\* Names.  A name is compared through the UTF-16 code unit of its first
\* letter; the names of each set differ in their first letter.
\* ------------------------------------------------------------------------
DriverNames == {"alpha", "Bravo"}
TeamNames == {"Alpine", "Ferrari", "McLaren", "Williams"}
PointValues == {5, 10}

FirstCodeUnit(name) ==
    CASE name = "alpha"    -> 97
      [] name = "Bravo"    -> 66
      [] name = "Alpine"   -> 65
      [] name = "Ferrari"  -> 70
      [] name = "McLaren"  -> 77
      [] name = "Williams" -> 87

\* String.prototype.toLowerCase on an ASCII letter.
ToLowerCase(c) == IF c >= 65 /\ c <= 90 THEN c + 32 ELSE c

\* ------------------------------------------------------------------------
\* Generic helpers
\* ------------------------------------------------------------------------
\* Array.prototype.includes
Includes(s, x) == \E i \in 1..Len(s) : s[i] = x

\* Array.prototype.slice(0, n)
SliceTo(s, n) == SubSeq(s, 1, IF Len(s) < n THEN Len(s) ELSE n)

\* ------------------------------------------------------------------------
\* Home page: constructor standings
\* ------------------------------------------------------------------------
\* The driver entries of the standings feed: any driver under any team; the
\* feed lists alpha with either total, Bravo always with the same one.
HomeEntries ==
    {e \in [driver_name : DriverNames, team : TeamNames, total_points : PointValues] :
        e.driver_name = "alpha" \/ e.total_points = 10}

\* Index of the group of `team` in the accumulator, 0 when acc[team] is unset.
GroupIndex(acc, team) ==
    IF \E i \in 1..Len(acc) : acc[i].team = team
    THEN CHOOSE i \in 1..Len(acc) : acc[i].team = team
    ELSE 0

\* The callback with a later record of a listed driver replacing the points
\* counted for that driver.
ReduceStepLastRecordWins(acc, driver) ==
    LET team == driver.team
        acc1 == IF GroupIndex(acc, team) = 0
                THEN Append(acc, [team |-> team, total_points |-> 0, drivers |-> <<>>,
                                  counted |-> [n \in DriverNames |-> 0]])
                ELSE acc
        i == GroupIndex(acc1, team)
    IN [acc1 EXCEPT ![i].total_points =
                        @ - acc1[i].counted[driver.driver_name] + driver.total_points,
                    ![i].counted[driver.driver_name] = driver.total_points,
                    ![i].drivers = IF Includes(@, driver.driver_name) THEN @
                                   ELSE Append(@, driver.driver_name)]

\* The callback without its includes() test.
ReduceStepNoDedup(acc, driver) ==
    LET team == driver.team
        acc1 == IF \E i \in 1..Len(acc) : acc[i].team = team
                THEN acc
                ELSE Append(acc, [team |-> team, total_points |-> 0, drivers |-> <<>>])
        i == CHOOSE k \in 1..Len(acc1) : acc1[k].team = team
    IN [acc1 EXCEPT ![i].total_points = @ + driver.total_points,
                    ![i].drivers = Append(@, driver.driver_name)]

\* The callback of standings.reduce: one driver folded into the accumulator.
\* The accumulator object is the sequence of its values in key insertion order.
ReduceStep(acc, driver) ==
    LET team == driver.team
        acc1 == IF GroupIndex(acc, team) = 0
                THEN Append(acc, [team |-> team, total_points |-> 0, drivers |-> <<>>])
                ELSE acc
        i == GroupIndex(acc1, team)
    IN IF ~Includes(acc1[i].drivers, driver.driver_name)
       THEN [acc1 EXCEPT ![i].total_points = @ + driver.total_points,
                         ![i].drivers = Append(@, driver.driver_name)]
       ELSE acc1

\* Object.values(standings.reduce(callback, {}))
RECURSIVE ReduceFrom(_, _, _)
ReduceFrom(acc, list, k) ==
    IF k > Len(list) THEN acc
    ELSE ReduceFrom(ReduceStep(acc, list[k]), list, k + 1)

\* reduce called without its initial value {}: a TypeError on an empty array.
ConstructorGroupsNoInitialValue(list) ==
    IF list = <<>> THEN <<"TypeError">> ELSE ReduceFrom(<<>>, list, 1)

ConstructorGroups(list) == ReduceFrom(<<>>, list, 1)

\* The comparator of the constructor sort.
ConstructorCompare(a, b) == b.total_points - a.total_points

\* Array.prototype.sort with ConstructorCompare: a stable sort, x is placed
\* behind every element that does not compare greater than it.
RECURSIVE ConstructorInsert(_, _)
ConstructorInsert(sorted, x) ==
    IF sorted = <<>> THEN <<x>>
    ELSE IF ConstructorCompare(sorted[Len(sorted)], x) <= 0
         THEN Append(sorted, x)
         ELSE Append(ConstructorInsert(SubSeq(sorted, 1, Len(sorted) - 1), x),
                     sorted[Len(sorted)])

RECURSIVE ConstructorSortFrom(_, _, _)
ConstructorSortFrom(sorted, list, k) ==
    IF k > Len(list) THEN sorted
    ELSE ConstructorSortFrom(ConstructorInsert(sorted, list[k]), list, k + 1)

ConstructorSort(list) == ConstructorSortFrom(<<>>, list, 1)

TopConstructors == 3

\* The whole expression rendered under "Constructor Standings".
ConstructorStandings(list) ==
    SliceTo(ConstructorSort(ConstructorGroups(list)), TopConstructors)

\* ------------------------------------------------------------------------
\* Drivers page: merge of the drivers list with the standings list
\* ------------------------------------------------------------------------
DriverEntries == [driver_name : DriverNames]

\* Standings records of the feed that carry every field ...
FullStandings ==
    { [total_points |-> 10, points |-> 8, sprint_points |-> 2,
       position |-> 1, races_participated |-> 3],
      [total_points |-> 5, points |-> 5, sprint_points |-> 0,
       position |-> 2, races_participated |-> 3] }

StandingFields ==
    {"total_points", "points", "sprint_points", "position", "races_participated"}

\* ... and the same records lacking one of their fields.
StandingShapes ==
    FullStandings \cup
    {[r EXCEPT ![f] = Undefined] : r \in FullStandings, f \in StandingFields}

StandingEntries ==
    {[driver_name |-> n, total_points |-> s.total_points, points |-> s.points,
      sprint_points |-> s.sprint_points, position |-> s.position,
      races_participated |-> s.races_participated] :
        n \in DriverNames, s \in StandingShapes}

\* The object literal {} : every property read yields undefined.
EmptyObject ==
    [total_points |-> Undefined, points |-> Undefined, sprint_points |-> Undefined,
     position |-> Undefined, races_participated |-> Undefined]

\* The values of a numeric field that `||` replaces by its right operand.
Falsy(x) == x \in {Undefined, Null, 0}

\* x || 0
OrZero(x) == IF Falsy(x) THEN 0 ELSE x

\* x || null
OrNull(x) == IF Falsy(x) THEN Null ELSE x

\* standingsData.forEach(standing => standingsMap[standing.driver_name] = standing)
RECURSIVE StandingsMapFrom(_, _, _)
StandingsMapFrom(map, list, k) ==
    IF k > Len(list) THEN map
    ELSE StandingsMapFrom([map EXCEPT ![list[k].driver_name] = <<list[k]>>], list, k + 1)

\* The lookup object: a key that was never assigned holds <<>>, an assigned
\* key holds <<standing>>.
StandingsMap(list) == StandingsMapFrom([n \in DriverNames |-> <<>>], list, 1)

\* The callback of driversData.map.
MergeDriver(standingsMap, driver) ==
    LET standing == IF standingsMap[driver.driver_name] = <<>>
                    THEN EmptyObject
                    ELSE standingsMap[driver.driver_name][1]
    IN [driver_name        |-> driver.driver_name,
        total_points       |-> OrZero(standing.total_points),
        points             |-> OrZero(standing.points),
        sprintPoints       |-> OrZero(standing.sprint_points),
        position           |-> OrNull(standing.position),
        races_participated |-> OrZero(standing.races_participated)]

MergedDrivers(dData, sData) ==
    [i \in 1..Len(dData) |-> MergeDriver(StandingsMap(sData), dData[i])]

\* Comparison of the names by code unit (a < b) instead of localeCompare.
CodeUnitCompare(a, b) ==
    IF FirstCodeUnit(a) < FirstCodeUnit(b) THEN -1
    ELSE IF FirstCodeUnit(a) > FirstCodeUnit(b) THEN 1
    ELSE 0

\* String.prototype.localeCompare under the default (ICU root) collation, for
\* names that differ in their first letter: the letters are compared first,
\* and of two names with the same letter the lower-case one comes first.
LocaleCompare(a, b) ==
    LET ca == FirstCodeUnit(a)
        cb == FirstCodeUnit(b)
    IN IF ToLowerCase(ca) < ToLowerCase(cb) THEN -1
       ELSE IF ToLowerCase(ca) > ToLowerCase(cb) THEN 1
       ELSE IF ca > cb THEN -1
       ELSE IF ca < cb THEN 1
       ELSE 0

\* The comparator with the two positions subtracted the other way round.
DriverComparePositionDescending(a, b) ==
    IF a.position # Null /\ b.position # Null THEN b.position - a.position
    ELSE IF a.position # Null THEN -1
    ELSE IF b.position # Null THEN 1
    ELSE LocaleCompare(a.driver_name, b.driver_name)

\* The comparator with the results of its one-sided cases exchanged.
DriverCompareUnrankedFirst(a, b) ==
    IF a.position # Null /\ b.position # Null THEN a.position - b.position
    ELSE IF a.position # Null THEN 1
    ELSE IF b.position # Null THEN -1
    ELSE LocaleCompare(a.driver_name, b.driver_name)

\* The comparator of mergedDrivers.sort.
DriverCompare(a, b) ==
    IF a.position # Null /\ b.position # Null THEN a.position - b.position
    ELSE IF a.position # Null THEN -1
    ELSE IF b.position # Null THEN 1
    ELSE LocaleCompare(a.driver_name, b.driver_name)

\* Array.prototype.sort with DriverCompare (stable).
RECURSIVE DriverInsert(_, _)
DriverInsert(sorted, x) ==
    IF sorted = <<>> THEN <<x>>
    ELSE IF DriverCompare(sorted[Len(sorted)], x) <= 0
         THEN Append(sorted, x)
         ELSE Append(DriverInsert(SubSeq(sorted, 1, Len(sorted) - 1), x),
                     sorted[Len(sorted)])

RECURSIVE DriverSortFrom(_, _, _)
DriverSortFrom(sorted, list, k) ==
    IF k > Len(list) THEN sorted
    ELSE DriverSortFrom(DriverInsert(sorted, list[k]), list, k + 1)

DriverSort(list) == DriverSortFrom(<<>>, list, 1)

\* The list handed to setDrivers.
MergeAndSort(dData, sData) == DriverSort(MergedDrivers(dData, sData))

\* The constructor expression of a render, with its effect on the list it
\* reads: reduce, Object.values, sort and slice write to the accumulator and
\* to the arrays they create, never to `standings` or to its entries.
ConstructorRender(list) ==
    [standings |-> list, shown |-> ConstructorStandings(list)]

\* The merge and sort with the /drivers body reversed in place.
MergeAndSortRunReversingInput(dData, sData) ==
    [driversData   |-> [i \in 1..Len(dData) |-> dData[Len(dData) + 1 - i]],
     standingsData |-> sData,
     drivers       |-> MergeAndSort(dData, sData)]

\* The merge and sort of fetchDriverData, with its effect on the two bodies:
\* forEach fills standingsMap, map builds new objects ({...driver, ...}) in a
\* new array and sort orders that new array; the bodies are only read.
MergeAndSortRun(dData, sData) ==
    [driversData   |-> dData,
     standingsData |-> sData,
     drivers       |-> MergeAndSort(dData, sData)]

\* ------------------------------------------------------------------------
\* TireStrategyChart: datasets and maxLaps
\* ------------------------------------------------------------------------
\* typeof x === 'number'
IsNumber(x) == x # Undefined /\ x # Null

\* A stint that is null.
NullStint == [start_lap |-> Null, end_lap |-> Null, compound |-> "null"]

\* Stints of the feed: three well-formed ones ({1,20} and {15,30} overlap,
\* {1,20} and {20,30} do not), a null record, and records whose start_lap or
\* end_lap is not a number.
StintValues ==
    { [start_lap |-> 1, end_lap |-> 20, compound |-> "SOFT"],
      [start_lap |-> 15, end_lap |-> 30, compound |-> "MEDIUM"],
      [start_lap |-> 20, end_lap |-> 30, compound |-> "ULTRASOFT"],
      NullStint,
      [start_lap |-> Undefined, end_lap |-> 20, compound |-> "SOFT"],
      [start_lap |-> 1, end_lap |-> Undefined, compound |-> "SOFT"] }

\* A value of data[driver] that is not an array.
NotArray == [isArray |-> FALSE, items |-> <<>>]

StintLists ==
    {NotArray} \cup
    {[isArray |-> TRUE, items |-> s] :
        s \in UNION {[1..n -> StintValues] : n \in 0..MaxStints}}

\* Object.keys(data) of the mappings: the drivers in insertion order.
KeyOrders == {<<>>, <<"alpha">>, <<"Bravo">>, <<"alpha", "Bravo">>, <<"Bravo", "alpha">>}

\* data = null (or undefined).
NullData == [kind |-> "null", keys |-> <<>>, lists |-> <<>>]

\* data = a one-character string: typeof is not 'object', Object.keys is ["0"].
StringData == [kind |-> "string", keys |-> <<"0">>, lists |-> <<NotArray>>]

\* compoundColors[compound] || '#808080'
CompoundColor(compound) ==
    CASE compound = "SOFT"         -> "#FF3333"
      [] compound = "MEDIUM"       -> "#FFD700"
      [] compound = "HARD"         -> "#FFFFFF"
      [] compound = "INTERMEDIATE" -> "#00FF00"
      [] compound = "WET"          -> "#0000FF"
      [] OTHER                     -> "#808080"

Max(a, b) == IF a > b THEN a ELSE b

\* The callback of the first drivers.forEach: the last stint of the driver.
MaxLapsStep(maxLaps, stints) ==
    IF stints.isArray /\ Len(stints.items) > 0
    THEN LET lastStint == stints.items[Len(stints.items)]
         IN IF lastStint # NullStint /\ IsNumber(lastStint.end_lap)
            THEN Max(maxLaps, lastStint.end_lap)
            ELSE maxLaps
    ELSE maxLaps

RECURSIVE MaxLapsFrom(_, _, _)
MaxLapsFrom(maxLaps, data, k) ==
    IF k > Len(data.keys) THEN maxLaps
    ELSE MaxLapsFrom(MaxLapsStep(maxLaps, data.lists[k]), data, k + 1)

\* let maxLaps = 0; drivers.forEach(...)
TireMaxLaps(data) == MaxLapsFrom(0, data, 1)

\* The callback of stints.forEach when a malformed stint makes it throw: the
\* datasets built so far are lost with the exception.
PushStintUnguarded(datasets, driver, stint) ==
    IF stint = NullStint \/ ~IsNumber(stint.start_lap) \/ ~IsNumber(stint.end_lap)
    THEN <<>>
    ELSE Append(datasets,
                [label |-> driver, x |-> stint.start_lap, y |-> driver,
                 width |-> stint.end_lap - stint.start_lap,
                 compound |-> stint.compound,
                 backgroundColor |-> CompoundColor(stint.compound),
                 stack |-> driver])

\* The callback of stints.forEach: a malformed stint is skipped, any other
\* one is pushed.
PushStint(datasets, driver, stint) ==
    IF stint = NullStint \/ ~IsNumber(stint.start_lap) \/ ~IsNumber(stint.end_lap)
    THEN datasets
    ELSE Append(datasets,
                [label |-> driver, x |-> stint.start_lap, y |-> driver,
                 width |-> stint.end_lap - stint.start_lap,
                 compound |-> stint.compound,
                 backgroundColor |-> CompoundColor(stint.compound),
                 stack |-> driver])

RECURSIVE PushStintsFrom(_, _, _, _)
PushStintsFrom(datasets, driver, items, k) ==
    IF k > Len(items) THEN datasets
    ELSE PushStintsFrom(PushStint(datasets, driver, items[k]), driver, items, k + 1)

\* The callback of the second drivers.forEach.
DatasetsStep(datasets, driver, stints) ==
    IF ~stints.isArray THEN datasets
    ELSE PushStintsFrom(datasets, driver, stints.items, 1)

RECURSIVE DatasetsFrom(_, _, _)
DatasetsFrom(datasets, data, k) ==
    IF k > Len(data.keys) THEN datasets
    ELSE DatasetsFrom(DatasetsStep(datasets, data.keys[k], data.lists[k]), data, k + 1)

\* const datasets = []; drivers.forEach(...)
TireDatasets(data) == DatasetsFrom(<<>>, data, 1)

\* What the component returns: the not-available text, or the canvas.
TireView(data) ==
    IF data.kind = "null" \/ Len(data.keys) = 0 THEN "notAvailable" ELSE "chart"

\* chartInstance.current.destroy() under `if (chartInstance.current)`: the
\* chart leaves the live charts, the ref keeps pointing to it.
Destroy(live, chart) == IF chart = <<>> THEN live ELSE live \ {chart[1].id}

\* The effect body with no cleanup function returned.
TireEffectWithoutCleanup(data, chart, live, nextId) ==
    IF data.kind = "null" \/ TireView(data) # "chart"
    THEN [datasets |-> <<>>, maxLaps |-> 0, chart |-> chart, live |-> live,
          cleanup |-> FALSE]
    ELSE IF data.kind # "object" \/ Len(data.keys) = 0
    THEN [datasets |-> <<>>, maxLaps |-> 0, chart |-> chart,
          live |-> Destroy(live, chart), cleanup |-> FALSE]
    ELSE LET maxLaps == TireMaxLaps(data)
             datasets == TireDatasets(data)
         IN IF Len(datasets) > 0
            THEN [datasets |-> datasets, maxLaps |-> maxLaps,
                  chart |-> <<[id |-> nextId, labels |-> data.keys,
                               datasets |-> datasets, max |-> maxLaps]>>,
                  live |-> Destroy(live, chart) \cup {nextId},
                  cleanup |-> FALSE]
            ELSE [datasets |-> datasets, maxLaps |-> maxLaps, chart |-> chart,
                  live |-> Destroy(live, chart), cleanup |-> FALSE]

\* The effect body.  chartRef.current is set when the canvas is rendered.
\* The result holds the datasets and maxLaps the run computed (none on an
\* early return), chartInstance.current and the live charts after the run,
\* and whether the run reached the `return () => {...}` at its end.
TireEffect(data, chart, live, nextId) ==
    IF data.kind = "null" \/ TireView(data) # "chart"
    THEN [datasets |-> <<>>, maxLaps |-> 0, chart |-> chart, live |-> live,
          cleanup |-> FALSE]
    ELSE IF data.kind # "object" \/ Len(data.keys) = 0
    THEN [datasets |-> <<>>, maxLaps |-> 0, chart |-> chart,
          live |-> Destroy(live, chart), cleanup |-> FALSE]
    ELSE LET maxLaps == TireMaxLaps(data)
             datasets == TireDatasets(data)
         IN IF Len(datasets) > 0
            THEN [datasets |-> datasets, maxLaps |-> maxLaps,
                  chart |-> <<[id |-> nextId, labels |-> data.keys,
                               datasets |-> datasets, max |-> maxLaps]>>,
                  live |-> Destroy(live, chart) \cup {nextId},
                  cleanup |-> TRUE]
            ELSE [datasets |-> datasets, maxLaps |-> maxLaps, chart |-> chart,
                  live |-> Destroy(live, chart), cleanup |-> TRUE]

\* The cleanup function of the previous effect run, when it returned one.
TireCleanup(registered, chart, live) ==
    IF registered THEN Destroy(live, chart) ELSE live

\* Values of the data prop of each kind: null, a string, the empty mapping,
\* a mapping without a stint list, and mappings with one and two drivers on
\* one stint.
TireDataSamples ==
    { NullData,
      StringData,
      [kind |-> "object", keys |-> <<>>, lists |-> <<>>],
      [kind |-> "object", keys |-> <<"alpha">>, lists |-> <<NotArray>>],
      [kind |-> "object", keys |-> <<"alpha">>,
       lists |-> <<[isArray |-> TRUE,
                    items |-> <<[start_lap |-> 1, end_lap |-> 20,
                                 compound |-> "SOFT"]>>]>>],
      [kind |-> "object", keys |-> <<"alpha", "Bravo">>,
       lists |-> <<[isArray |-> TRUE,
                    items |-> <<[start_lap |-> 1, end_lap |-> 20,
                                 compound |-> "SOFT"]>>],
                   [isArray |-> TRUE,
                    items |-> <<[start_lap |-> 15, end_lap |-> 30,
                                 compound |-> "MEDIUM"]>>]>>] }

\* ------------------------------------------------------------------------
\* Races page
\* ------------------------------------------------------------------------
\* Race dates are days; Now is the day on which the page is used.
Now == 2

Rounds == {1, 2}

PastRace == [round |-> 1, date |-> 1]
FutureRace == [round |-> 2, date |-> 3]

\* Bodies of the /schedule response.
Schedules == {<<>>, <<PastRace, FutureRace>>}

\* The three round-scoped requests, by the last segment of their URL.
Kinds == {"positions", "team-pace", "tire-strategy"}

\* Bodies of the /positions response: a mapping from driver abbreviation
\* (keys, in insertion order) to that driver's entry.
PositionBodies ==
    { [keys |-> <<>>, entries |-> <<>>],
      [keys |-> <<"ALP">>,
       entries |-> <<[driver_name |-> "alpha", lap_numbers |-> <<1, 2>>,
                      positions |-> <<1, 1>>]>>],
      [keys |-> <<"ALP">>,
       entries |-> <<[driver_name |-> "alpha", lap_numbers |-> <<2, 1>>,
                      positions |-> <<1, 1>>]>>],
      [keys |-> <<"ALP", "BRA">>,
       entries |-> <<[driver_name |-> "alpha", lap_numbers |-> <<1>>,
                      positions |-> <<1>>],
                     [driver_name |-> "Bravo", lap_numbers |-> <<1, 2>>,
                      positions |-> <<2, 1>>]>>] }

\* Body of the /team-pace response.
PaceBodies == { [lap_numbers |-> <<1, 2>>, teams |-> <<>>] }

\* Bodies of the /tire-strategy response: the empty mapping and a mapping
\* with one driver on one stint.
StrategyBodies ==
    { [kind |-> "object", keys |-> <<>>, lists |-> <<>>],
      [kind |-> "object", keys |-> <<"alpha">>,
       lists |-> <<[isArray |-> TRUE,
                    items |-> <<[start_lap |-> 1, end_lap |-> 20,
                                 compound |-> "SOFT"]>>]>>] }

\* const chartData = positionData ? {labels, datasets} : null
ChartData(pd) ==
    IF pd = <<>> THEN <<>>
    ELSE LET body == pd[1].body
         IN <<[labels   |-> IF Len(body.keys) = 0 THEN <<>>
                            ELSE body.entries[1].lap_numbers,
               datasets |-> [i \in 1..Len(body.keys) |->
                               [label |-> body.entries[i].driver_name,
                                data  |-> body.entries[i].positions]]]>>

\* The tire strategy section of the page: spinner, error box, or the
\* TireStrategyChart component with data = tireStrategyData.
StrategyView(isLoading, err, data) ==
    IF isLoading THEN "spinner"
    ELSE IF err # NoError THEN "error"
    ELSE IF data = <<>> THEN TireView(NullData)
    ELSE TireView(data[1].body)

\* One of the three fetch functions up to its await: without a selected race
\* it returns at once, else it sets its loading flag, clears its error and
\* issues the request.
FetchStart(selected, isLoading, err) ==
    IF selected = <<>>
    THEN [loading |-> isLoading, error |-> err, issued |-> FALSE]
    ELSE [loading |-> TRUE, error |-> NoError, issued |-> TRUE]

\* One more request of every kind is awaiting its response for `round`.
Issue(fl, round) == [k \in Kinds |-> [fl[k] EXCEPT ![round] = @ + 1]]

\* A request of `kind` for `round` got its response.
Settle(fl, kind, round) == [fl EXCEPT ![kind][round] = @ - 1]

\* ------------------------------------------------------------------------
\* Schedule page
\* ------------------------------------------------------------------------
\* race.date = 'Unknown'
UnknownDate == -3

Years == {2025, 2024}

\* A race date is the instant of its UTC midnight, as Now is an instant:
\* new Date(raceDate + 'T00:00:00Z').
ScheduleDates == <<0, 1, Now, 3, Undefined, UnknownDate>>

\* Body of the /schedule/{year} response with one race per date.
FullSchedule(year) ==
    [i \in 1..Len(ScheduleDates) |->
        [year |-> year, round |-> i, date |-> ScheduleDates[i]]]

ScheduleBodies(year) == {<<>>, FullSchedule(year)}

ScheduleRaces == UNION {{FullSchedule(y)[i] : i \in 1..Len(ScheduleDates)} : y \in Years}

\* isRaceCompleted with `<=` in place of `<`.
IsRaceCompletedThroughNow(raceDate) ==
    IF raceDate \in {Undefined, Null} \/ raceDate = UnknownDate THEN FALSE
    ELSE raceDate <= Now

\* isRaceCompleted(raceDate)
IsRaceCompleted(raceDate) ==
    IF raceDate \in {Undefined, Null} \/ raceDate = UnknownDate THEN FALSE
    ELSE raceDate < Now

\* data.filter(race => isRaceCompleted(race.date)).map(race => race.round)
RECURSIVE CompletedRounds(_, _)
CompletedRounds(data, k) ==
    IF k > Len(data) THEN <<>>
    ELSE IF IsRaceCompleted(data[k].date)
         THEN <<data[k].round>> \o CompletedRounds(data, k + 1)
         ELSE CompletedRounds(data, k + 1)

\* data.results of a /race-results response: missing, or the results of the
\* race the request was made for.
ResultsOf(year, race, present) ==
    IF present THEN <<[year |-> year, round |-> race.round]>> ELSE <<>>

\* The continuation of handleRaceClick after an ok response that sets
\* raceResults and opens the modal, leaving selectedRace as it was.
HandleRaceResponseKeepingRace(current, year, race, present) ==
    [raceResults |-> ResultsOf(year, race, present),
     selectedRace |-> current.selectedRace,
     isModalOpen  |-> TRUE]

\* The continuation of handleRaceClick after an ok response:
\* setRaceResults(data.results); setSelectedRace(race); setIsModalOpen(true).
HandleRaceResponse(current, year, race, present) ==
    [raceResults |-> ResultsOf(year, race, present),
     selectedRace |-> <<race>>,
     isModalOpen  |-> TRUE]

\* What the Schedule component returns.
ScheduleView ==
    IF scheduleLoading THEN "loading"
    ELSE IF scheduleError # NoError THEN "error"
    ELSE "main"

\* RaceResultsModal renders: if (!isOpen || !results) return null.
ModalShown == ScheduleView = "main" /\ isModalOpen /\ raceResults # <<>>

\* ------------------------------------------------------------------------
\* Standings page
\* ------------------------------------------------------------------------
\* The two awaits of fetchStandings, by the request awaited.
StandingsAwaits == {"standings", "team_standings"}

\* Body of a /standings/{year} or /team_standings/{year} response: the
\* standings of that year.
StandingsOfYear(year) == <<[year |-> year]>>

\* ------------------------------------------------------------------------
\* State machine.  Home, Drivers and Races are pages of the application: one
\* of them is mounted, and mounting a page runs its data effects.
\* ------------------------------------------------------------------------
\* ------------------------------------------------------------------------
\* Home page: next race and countdown
\* ------------------------------------------------------------------------
SecondMs == 1000
MinuteMs == 1000 * 60
HourMs == 1000 * 60 * 60
DayMs == 1000 * 60 * 60 * 24

\* new Date(race.date) as milliseconds; race dates are whole days.
DateMs(date) == date * DayMs

\* Bodies of the /schedule/2025 response of the Home page.
HomeSchedules == {<<>>, <<PastRace>>, <<PastRace, FutureRace>>}

\* scheduleData.find(race => new Date(race.date) > now): the first race
\* after `now`, <<>> when there is none.
FindNextRace(scheduleData, now) ==
    LET later == {i \in 1..Len(scheduleData) : DateMs(scheduleData[i].date) > now}
    IN IF later = {} THEN <<>>
       ELSE <<scheduleData[CHOOSE i \in later : \A j \in later : i <= j]>>

\* The object updateCountdown hands to setCountdown; diff is not negative
\* within the seconds the model lets pass.
Countdown(diff) ==
    [days |-> diff \div DayMs,
     hours |-> (diff % DayMs) \div HourMs,
     minutes |-> (diff % HourMs) \div MinuteMs,
     seconds |-> (diff % MinuteMs) \div SecondMs]

\* A state update of the Home component: React drops it once the component
\* is unmounted.
HomeSet(removed, old, new) == IF removed THEN old ELSE new

Init ==
    /\ homePc = "unmounted"
    /\ homeResponse = <<>>
    /\ standings = <<>>
    /\ homeLoading = TRUE
    /\ homeError = NoError
    /\ constructorsShown = ConstructorStandings(<<>>)
    /\ driversPc = "unmounted"
    /\ driversResponse = <<>>
    /\ standingsResponse = <<>>
    /\ driversData = <<>>
    /\ standingsData = <<>>
    /\ drivers = <<>>
    /\ driversLoading = TRUE
    /\ driversError = NoError
    /\ tirePc = "unmounted"
    /\ standingsPc = "unmounted"
    /\ schedulePc = "unmounted"
    /\ tireData = NullData
    /\ tireDatasets = <<>>
    /\ tireMaxLaps = 0
    /\ chartInstance = <<>>
    /\ liveCharts = {}
    /\ tireCleanup = FALSE
    /\ tireRuns = 0
    /\ racesPc = "unmounted"
    /\ races = <<>>
    /\ racesInflight = FALSE
    /\ selectedRace = <<>>
    /\ selections = 0
    /\ inflight = [k \in Kinds |-> [r \in Rounds |-> 0]]
    /\ positionData = <<>>
    /\ teamPaceData = <<>>
    /\ tireStrategyData = <<>>
    /\ loading = FALSE
    /\ loadingPace = FALSE
    /\ loadingStrategy = FALSE
    /\ error = NoError
    /\ paceError = NoError
    /\ strategyError = NoError
    /\ scheduleYear = 2025
    /\ schedule = <<>>
    /\ completedRaces = <<>>
    /\ scheduleLoading = TRUE
    /\ scheduleError = NoError
    /\ scheduleFetches = [y \in Years |-> 0]
    /\ clickedRace = <<>>
    /\ raceResults = <<>>
    /\ isModalOpen = FALSE
    /\ resultsInflight = [y \in Years |-> [race \in ScheduleRaces |-> 0]]
    /\ clicks = 0
    /\ yearChanges = 0
    /\ selectedDriver = <<>>
    /\ driverStats = <<>>
    /\ loadingStats = FALSE
    /\ statsModalOpen = FALSE
    /\ statsInflight = [n \in DriverNames |-> 0]
    /\ driverClicks = 0
    /\ currentYear = 2025
    /\ driverStandings = <<>>
    /\ constructorStandings = <<>>
    /\ standingsLoading = TRUE
    /\ standingsError = NoError
    /\ standingsRuns = [y \in Years |-> [a \in StandingsAwaits |-> 0]]
    /\ standingsYearChanges = 0
    /\ homeRemoved = FALSE
    /\ nextRaceData = <<>>
    /\ nextRace = <<>>
    /\ countdown = [days |-> 0, hours |-> 0, minutes |-> 0, seconds |-> 0]
    /\ countdownTimer = FALSE
    /\ clock = DateMs(Now)

\* Home is mounted: fetchData up to its first await.
HomeFetchData ==
    /\ homePc = "unmounted"
    /\ driversPc = "unmounted"
    /\ tirePc = "unmounted"
    /\ standingsPc = "unmounted"
    /\ schedulePc = "unmounted"
    /\ racesPc = "unmounted"
    /\ homePc' = "standings"
    /\ homeLoading' = TRUE
    /\ homeError' = NoError
    /\ LET run == ConstructorRender(standings)
       IN /\ standings' = run.standings
          /\ constructorsShown' = run.shown
    /\ UNCHANGED <<homeResponse, driversVars, tireVars, racesVars, scheduleVars,
                   statsVars, standingsPageVars,
                   countdownVars>>

\* The /standings response is ok: setStandings(standingsData) and the render
\* that follows it; fetchData goes on to the schedule request, which leaves
\* standings alone.
HomeStandingsOkUpTo(maxLen) ==
    /\ homePc = "standings"
    /\ \E n \in 0..maxLen : \E data \in [1..n -> HomeEntries] :
          LET run == ConstructorRender(data)
          IN /\ homeResponse' = data
             /\ standings' = HomeSet(homeRemoved, standings, run.standings)
             /\ constructorsShown' =
                   HomeSet(homeRemoved, constructorsShown, run.shown)
    /\ homePc' = "schedule"
    /\ UNCHANGED <<homeLoading, homeError, driversVars, tireVars, racesVars,
                   scheduleVars, statsVars, standingsPageVars, countdownVars>>

HomeStandingsOk == HomeStandingsOkUpTo(MaxStandings)

HomeStandingsOkBrief == HomeStandingsOkUpTo(1)

\* The /standings response is not ok: throw, catch, finally.
HomeStandingsFail ==
    /\ homePc = "standings"
    /\ homeError' = HomeSet(homeRemoved, homeError, "Failed to fetch standings")
    /\ homeLoading' = HomeSet(homeRemoved, homeLoading, FALSE)
    /\ homePc' = "done"
    /\ UNCHANGED <<homeResponse, standings, constructorsShown, driversVars,
                   tireVars, racesVars, scheduleVars, statsVars,
                   standingsPageVars, countdownVars>>

\* The /schedule response is ok: the next race is looked up and
\* setNextRace(nextRaceData); fetchData goes on to the quick-stats request.
HomeScheduleOk ==
    /\ homePc = "schedule"
    /\ \E scheduleData \in HomeSchedules :
          LET found == FindNextRace(scheduleData, clock)
          IN /\ nextRaceData' = found
             /\ nextRace' = HomeSet(homeRemoved, nextRace, found)
    /\ homePc' = "quickStats"
    /\ UNCHANGED <<homeResponse, standings, homeLoading, homeError,
                   constructorsShown, homeRemoved, countdown, countdownTimer,
                   clock, driversVars, tireVars, racesVars, scheduleVars,
                   statsVars, standingsPageVars>>

\* The /schedule response is not ok: throw, catch, finally.
HomeScheduleFail ==
    /\ homePc = "schedule"
    /\ homeError' = HomeSet(homeRemoved, homeError, "Failed to fetch schedule")
    /\ homeLoading' = HomeSet(homeRemoved, homeLoading, FALSE)
    /\ homePc' = "done"
    /\ UNCHANGED <<homeResponse, standings, constructorsShown, countdownVars,
                   driversVars, tireVars, racesVars, scheduleVars, statsVars,
                   standingsPageVars>>

\* The /quick-stats response is ok: with a next race, updateCountdown() and
\* setInterval(updateCountdown, 1000); the function that clears the interval
\* is the value fetchData's promise resolves to.  Then finally.
HomeQuickStatsOk ==
    /\ homePc = "quickStats"
    /\ IF nextRaceData # <<>>
       THEN /\ countdown' =
                 HomeSet(homeRemoved, countdown,
                         Countdown(DateMs(nextRaceData[1].date) - clock))
            /\ countdownTimer' = TRUE
       ELSE UNCHANGED <<countdown, countdownTimer>>
    /\ homeLoading' = HomeSet(homeRemoved, homeLoading, FALSE)
    /\ homePc' = "done"
    /\ UNCHANGED <<homeResponse, standings, homeError, constructorsShown,
                   homeRemoved, nextRaceData, nextRace, clock, driversVars,
                   tireVars, racesVars, scheduleVars, statsVars,
                   standingsPageVars>>

\* The /quick-stats response is not ok: throw, catch, finally.
HomeQuickStatsFail ==
    /\ homePc = "quickStats"
    /\ homeError' = HomeSet(homeRemoved, homeError, "Failed to fetch quick stats")
    /\ homeLoading' = HomeSet(homeRemoved, homeLoading, FALSE)
    /\ homePc' = "done"
    /\ UNCHANGED <<homeResponse, standings, constructorsShown, countdownVars,
                   driversVars, tireVars, racesVars, scheduleVars, statsVars,
                   standingsPageVars>>

\* A second passes and the interval calls updateCountdown.
HomeCountdownTick ==
    /\ countdownTimer
    /\ clock < DateMs(Now) + MaxTicks * SecondMs
    /\ clock' = clock + SecondMs
    /\ countdown' = HomeSet(homeRemoved, countdown,
                            Countdown(DateMs(nextRaceData[1].date) - clock'))
    /\ UNCHANGED <<homeVars, homeRemoved, nextRaceData, nextRace,
                   countdownTimer, driversVars, tireVars, racesVars,
                   scheduleVars, statsVars, standingsPageVars>>

\* Home is unmounted.  The mount effect returns the value of fetchData()'s
\* call statement, which is nothing: there is no effect cleanup to run.
HomeUnmount ==
    /\ homePc # "unmounted"
    /\ ~homeRemoved
    /\ homeRemoved' = TRUE
    /\ UNCHANGED <<homeVars, nextRaceData, nextRace, countdown, countdownTimer,
                   clock, driversVars, tireVars, racesVars, scheduleVars,
                   statsVars, standingsPageVars>>

\* Drivers is mounted: fetchDriverData up to its await.
DriversFetchData ==
    /\ driversPc = "unmounted"
    /\ homePc = "unmounted"
    /\ tirePc = "unmounted"
    /\ standingsPc = "unmounted"
    /\ schedulePc = "unmounted"
    /\ racesPc = "unmounted"
    /\ driversPc' = "fetching"
    /\ driversLoading' = TRUE
    /\ driversError' = NoError
    /\ UNCHANGED <<driversResponse, standingsResponse, driversData, standingsData,
                   drivers, homeVars, tireVars, racesVars, scheduleVars,
                   statsVars, standingsPageVars,
                   countdownVars>>

\* Both responses are ok, the /standings body holding up to maxFeed
\* records: merge, sort, setDrivers, finally.
DriversFetchOkUpTo(maxFeed) ==
    /\ driversPc = "fetching"
    /\ \E n \in 0..MaxDrivers : \E dData \in [1..n -> DriverEntries] :
       \E m \in 0..maxFeed : \E sData \in [1..m -> StandingEntries] :
          LET run == MergeAndSortRun(dData, sData)
          IN /\ driversResponse' = dData
             /\ standingsResponse' = sData
             /\ driversData' = run.driversData
             /\ standingsData' = run.standingsData
             /\ drivers' = run.drivers
    /\ driversLoading' = FALSE
    /\ driversPc' = "done"
    /\ UNCHANGED <<driversError, homeVars, tireVars, racesVars, scheduleVars,
                   statsVars, standingsPageVars,
                   countdownVars>>

DriversFetchOk == DriversFetchOkUpTo(MaxFeed)

\* Both responses are ok and the /standings body is the empty list.
DriversFetchOkUnranked == DriversFetchOkUpTo(0)

\* The DriverStatsModal component: if (!driver || !stats) return null.
StatsModalShown ==
    /\ driversPc = "done"
    /\ statsModalOpen
    /\ selectedDriver # <<>>
    /\ driverStats # <<>>

\* handleDriverClick(drivers[i]): setSelectedDriver, setIsModalOpen(true) and
\* fetchDriverStats up to its await.  The tiles are covered while the modal
\* is shown.
DriverClick ==
    /\ driversPc = "done"
    /\ ~StatsModalShown
    /\ driverClicks < MaxDriverClicks
    /\ \E i \in 1..Len(drivers) :
          /\ selectedDriver' = <<drivers[i]>>
          /\ statsInflight' =
                [statsInflight EXCEPT ![drivers[i].driver_name] = @ + 1]
    /\ statsModalOpen' = TRUE
    /\ loadingStats' = TRUE
    /\ driverClicks' = driverClicks + 1
    /\ UNCHANGED <<driverStats, homeVars, driversVars, tireVars, racesVars,
                   scheduleVars, standingsPageVars,
                   countdownVars>>

\* A /driver-stats response is ok: setDriverStats(data), finally.
DriverStatsOk ==
    /\ \E n \in DriverNames :
          /\ statsInflight[n] > 0
          /\ statsInflight' = [statsInflight EXCEPT ![n] = @ - 1]
          /\ driverStats' = <<[driver_name |-> n]>>
    /\ loadingStats' = FALSE
    /\ UNCHANGED <<selectedDriver, statsModalOpen, driverClicks, homeVars,
                   driversVars, tireVars, racesVars, scheduleVars,
                   standingsPageVars,
                   countdownVars>>

\* A /driver-stats response is not ok: throw, catch, finally.
DriverStatsFail ==
    /\ \E n \in DriverNames :
          /\ statsInflight[n] > 0
          /\ statsInflight' = [statsInflight EXCEPT ![n] = @ - 1]
    /\ loadingStats' = FALSE
    /\ UNCHANGED <<selectedDriver, driverStats, statsModalOpen, driverClicks,
                   homeVars, driversVars, tireVars, racesVars, scheduleVars,
                   standingsPageVars,
                   countdownVars>>

\* closeModal, by the close button of the modal.
DriverCloseModal ==
    /\ StatsModalShown
    /\ selectedDriver' = <<>>
    /\ driverStats' = <<>>
    /\ statsModalOpen' = FALSE
    /\ UNCHANGED <<loadingStats, statsInflight, driverClicks, homeVars,
                   driversVars, tireVars, racesVars, scheduleVars,
                   standingsPageVars,
                   countdownVars>>

\* One of the two responses is not ok: throw, catch, finally.
DriversFetchFail ==
    /\ driversPc = "fetching"
    /\ \E msg \in {"Failed to fetch driver data", "Failed to fetch standings data"} :
          driversError' = msg
    /\ driversLoading' = FALSE
    /\ driversPc' = "failed"
    /\ UNCHANGED <<driversResponse, standingsResponse, driversData, standingsData,
                   drivers, homeVars, tireVars, racesVars, scheduleVars,
                   statsVars, standingsPageVars,
                   countdownVars>>

\* A render with the data prop `data` and the commit that follows it: the
\* cleanup of the previous effect run, then the effect.
TireRender(data) ==
    LET run == TireEffect(data, chartInstance,
                          TireCleanup(tireCleanup, chartInstance, liveCharts),
                          tireRuns + 1)
    IN /\ tireData' = data
       /\ tireDatasets' = run.datasets
       /\ tireMaxLaps' = run.maxLaps
       /\ chartInstance' = run.chart
       /\ liveCharts' = run.live
       /\ tireCleanup' = run.cleanup
       /\ tireRuns' = tireRuns + 1

\* TireStrategyChart is mounted with any value of the data prop: the first
\* render and the effect that follows it.
TireMount ==
    /\ tirePc = "unmounted"
    /\ standingsPc = "unmounted"
    /\ schedulePc = "unmounted"
    /\ homePc = "unmounted"
    /\ driversPc = "unmounted"
    /\ racesPc = "unmounted"
    /\ \/ \E data \in {NullData, StringData} : TireRender(data)
       \/ \E keys \in KeyOrders : \E lists \in [1..Len(keys) -> StintLists] :
             TireRender([kind |-> "object", keys |-> keys, lists |-> lists])
    /\ tirePc' = "mounted"
    /\ UNCHANGED <<homeVars, driversVars, racesVars, scheduleVars, statsVars,
                   standingsPageVars, countdownVars>>

\* The mount with one of the sample values of the data prop.
TireMountSample ==
    /\ tirePc = "unmounted"
    /\ standingsPc = "unmounted"
    /\ schedulePc = "unmounted"
    /\ homePc = "unmounted"
    /\ driversPc = "unmounted"
    /\ racesPc = "unmounted"
    /\ \E data \in TireDataSamples : TireRender(data)
    /\ tirePc' = "mounted"
    /\ UNCHANGED <<homeVars, driversVars, racesVars, scheduleVars, statsVars,
                   standingsPageVars, countdownVars>>

\* The parent renders the component with a new data prop, or with the same
\* data and a new raceName: [data, raceName] changed, so the cleanup and the
\* effect run.
TireChange ==
    /\ tirePc = "mounted"
    /\ tireRuns < MaxTireRuns
    /\ \E data \in TireDataSamples : TireRender(data)
    /\ UNCHANGED <<tirePc, homeVars, driversVars, racesVars, scheduleVars,
                   statsVars, standingsPageVars,
                   countdownVars>>

\* The component is unmounted: the cleanup of the last effect run.
TireUnmount ==
    /\ tirePc = "mounted"
    /\ tirePc' = "removed"
    /\ liveCharts' = TireCleanup(tireCleanup, chartInstance, liveCharts)
    /\ tireCleanup' = FALSE
    /\ UNCHANGED <<tireData, tireDatasets, tireMaxLaps, chartInstance, tireRuns,
                   homeVars, driversVars, racesVars, scheduleVars, statsVars,
                   standingsPageVars,
                   countdownVars>>

\* The three round-scoped effects of a render in which `selected` is the
\* selected race, each up to its await.
RoundEffects(selected) ==
    LET p == FetchStart(selected, loading, error)
        t == FetchStart(selected, loadingPace, paceError)
        s == FetchStart(selected, loadingStrategy, strategyError)
    IN /\ loading' = p.loading
       /\ error' = p.error
       /\ loadingPace' = t.loading
       /\ paceError' = t.error
       /\ loadingStrategy' = s.loading
       /\ strategyError' = s.error
       /\ inflight' = IF p.issued THEN Issue(inflight, selected[1].round)
                      ELSE inflight

\* Races is mounted: fetchRaces up to its await, and the three round-scoped
\* effects with the initial selectedRace.
RacesMount ==
    /\ racesPc = "unmounted"
    /\ homePc = "unmounted"
    /\ driversPc = "unmounted"
    /\ tirePc = "unmounted"
    /\ standingsPc = "unmounted"
    /\ schedulePc = "unmounted"
    /\ racesPc' = "mounted"
    /\ racesInflight' = TRUE
    /\ RoundEffects(selectedRace)
    /\ UNCHANGED <<races, selectedRace, selections, positionData, teamPaceData,
                   tireStrategyData, homeVars, driversVars, tireVars,
                   scheduleVars, statsVars, standingsPageVars,
                   countdownVars>>

\* The /schedule response is ok: setRaces(data).
RacesFetchOk ==
    /\ racesInflight
    /\ \E data \in Schedules : races' = data
    /\ racesInflight' = FALSE
    /\ UNCHANGED <<racesPc, selectedRace, selections, inflight, positionData,
                   teamPaceData, tireStrategyData, loading, loadingPace,
                   loadingStrategy, error, paceError, strategyError,
                   homeVars, driversVars, tireVars, scheduleVars, statsVars,
                   standingsPageVars,
                   countdownVars>>

\* The /schedule response is not ok: throw, catch, setError.
RacesFetchFail ==
    /\ racesInflight
    /\ error' = "Failed to fetch races"
    /\ racesInflight' = FALSE
    /\ UNCHANGED <<racesPc, races, selectedRace, selections, inflight,
                   positionData, teamPaceData, tireStrategyData, loading,
                   loadingPace, loadingStrategy, paceError, strategyError,
                   homeVars, driversVars, tireVars, scheduleVars, statsVars,
                   standingsPageVars,
                   countdownVars>>

\* A click on a race button: setSelectedRace(race), the render that follows
\* and the three effects that depend on selectedRace.  A click on the race
\* that is selected already leaves the state as it is and runs no effect.
SelectRace ==
    /\ racesPc = "mounted"
    /\ selections < MaxSelections
    /\ \E i \in 1..Len(races) :
          /\ selectedRace # <<races[i]>>
          /\ selectedRace' = <<races[i]>>
          /\ RoundEffects(<<races[i]>>)
    /\ selections' = selections + 1
    /\ UNCHANGED <<racesPc, races, racesInflight, positionData, teamPaceData,
                   tireStrategyData, homeVars, driversVars, tireVars,
                   scheduleVars, statsVars, standingsPageVars,
                   countdownVars>>

\* A /positions response is ok: setPositionData(data), finally.
PositionsOk ==
    /\ \E r \in Rounds :
          /\ inflight["positions"][r] > 0
          /\ inflight' = Settle(inflight, "positions", r)
          /\ \E body \in PositionBodies :
                positionData' = <<[round |-> r, body |-> body]>>
    /\ loading' = FALSE
    /\ UNCHANGED <<racesPc, races, racesInflight, selectedRace, selections,
                   teamPaceData, tireStrategyData, loadingPace, loadingStrategy,
                   error, paceError, strategyError,
                   homeVars, driversVars, tireVars, scheduleVars, statsVars,
                   standingsPageVars,
                   countdownVars>>

\* A /positions response is not ok: throw, catch, setError, finally.
PositionsFail ==
    /\ \E r \in Rounds :
          /\ inflight["positions"][r] > 0
          /\ inflight' = Settle(inflight, "positions", r)
    /\ error' = "Failed to fetch position data"
    /\ loading' = FALSE
    /\ UNCHANGED <<racesPc, races, racesInflight, selectedRace, selections,
                   positionData, teamPaceData, tireStrategyData, loadingPace,
                   loadingStrategy, paceError, strategyError,
                   homeVars, driversVars, tireVars, scheduleVars, statsVars,
                   standingsPageVars,
                   countdownVars>>

\* A /team-pace response is ok: setTeamPaceData(data), finally.
TeamPaceOk ==
    /\ \E r \in Rounds :
          /\ inflight["team-pace"][r] > 0
          /\ inflight' = Settle(inflight, "team-pace", r)
          /\ \E body \in PaceBodies :
                teamPaceData' = <<[round |-> r, body |-> body]>>
    /\ loadingPace' = FALSE
    /\ UNCHANGED <<racesPc, races, racesInflight, selectedRace, selections,
                   positionData, tireStrategyData, loading, loadingStrategy,
                   error, paceError, strategyError,
                   homeVars, driversVars, tireVars, scheduleVars, statsVars,
                   standingsPageVars,
                   countdownVars>>

\* A /team-pace response is not ok: throw, catch, setPaceError, finally.
TeamPaceFail ==
    /\ \E r \in Rounds :
          /\ inflight["team-pace"][r] > 0
          /\ inflight' = Settle(inflight, "team-pace", r)
    /\ paceError' = "Failed to fetch team pace data"
    /\ loadingPace' = FALSE
    /\ UNCHANGED <<racesPc, races, racesInflight, selectedRace, selections,
                   positionData, teamPaceData, tireStrategyData, loading,
                   loadingStrategy, error, strategyError,
                   homeVars, driversVars, tireVars, scheduleVars, statsVars,
                   standingsPageVars,
                   countdownVars>>

\* A /tire-strategy response is ok: setTireStrategyData(data), finally.
TireStrategyOk ==
    /\ \E r \in Rounds :
          /\ inflight["tire-strategy"][r] > 0
          /\ inflight' = Settle(inflight, "tire-strategy", r)
          /\ \E body \in StrategyBodies :
                tireStrategyData' = <<[round |-> r, body |-> body]>>
    /\ loadingStrategy' = FALSE
    /\ UNCHANGED <<racesPc, races, racesInflight, selectedRace, selections,
                   positionData, teamPaceData, loading, loadingPace,
                   error, paceError, strategyError,
                   homeVars, driversVars, tireVars, scheduleVars, statsVars,
                   standingsPageVars,
                   countdownVars>>

\* A /tire-strategy response is not ok: throw, catch, setStrategyError,
\* finally.
TireStrategyFail ==
    /\ \E r \in Rounds :
          /\ inflight["tire-strategy"][r] > 0
          /\ inflight' = Settle(inflight, "tire-strategy", r)
    /\ strategyError' = "Failed to fetch tire strategy data"
    /\ loadingStrategy' = FALSE
    /\ UNCHANGED <<racesPc, races, racesInflight, selectedRace, selections,
                   positionData, teamPaceData, tireStrategyData, loading,
                   loadingPace, error, paceError,
                   homeVars, driversVars, tireVars, scheduleVars, statsVars,
                   standingsPageVars,
                   countdownVars>>

\* fetchSchedule up to its await, for the year `year`.
FetchScheduleStart(year) ==
    /\ scheduleLoading' = TRUE
    /\ scheduleError' = NoError
    /\ scheduleFetches' = [scheduleFetches EXCEPT ![year] = @ + 1]

\* Schedule is mounted: the effect on [selectedYear] runs fetchSchedule.
ScheduleMount ==
    /\ schedulePc = "unmounted"
    /\ homePc = "unmounted"
    /\ driversPc = "unmounted"
    /\ tirePc = "unmounted"
    /\ standingsPc = "unmounted"
    /\ racesPc = "unmounted"
    /\ schedulePc' = "mounted"
    /\ FetchScheduleStart(scheduleYear)
    /\ UNCHANGED <<scheduleYear, schedule, completedRaces, clickedRace,
                   raceResults, isModalOpen, resultsInflight, clicks, yearChanges,
                   homeVars, driversVars, tireVars, racesVars, statsVars,
                   standingsPageVars,
                   countdownVars>>

\* A /schedule response is ok: setSchedule, setCompletedRaces, finally.
ScheduleFetchOk ==
    /\ \E y \in Years :
          /\ scheduleFetches[y] > 0
          /\ scheduleFetches' = [scheduleFetches EXCEPT ![y] = @ - 1]
          /\ \E data \in ScheduleBodies(y) :
                /\ schedule' = data
                /\ completedRaces' = CompletedRounds(data, 1)
    /\ scheduleLoading' = FALSE
    /\ UNCHANGED <<schedulePc, scheduleYear, scheduleError, clickedRace,
                   raceResults, isModalOpen, resultsInflight, clicks, yearChanges,
                   homeVars, driversVars, tireVars, racesVars, statsVars,
                   standingsPageVars,
                   countdownVars>>

\* A /schedule response is not ok: throw, catch, setError, finally.
ScheduleFetchFail ==
    /\ \E y \in Years :
          /\ scheduleFetches[y] > 0
          /\ scheduleFetches' = [scheduleFetches EXCEPT ![y] = @ - 1]
    /\ scheduleError' = "Failed to fetch schedule"
    /\ scheduleLoading' = FALSE
    /\ UNCHANGED <<schedulePc, scheduleYear, schedule, completedRaces,
                   clickedRace, raceResults, isModalOpen, resultsInflight,
                   clicks, yearChanges,
                   homeVars, driversVars, tireVars, racesVars, statsVars,
                   standingsPageVars,
                   countdownVars>>

\* The year selector (rendered in the main view): setSelectedYear(year) and
\* the effect on [selectedYear].
ScheduleYearChange ==
    /\ schedulePc = "mounted"
    /\ ScheduleView = "main"
    /\ yearChanges < MaxYearChanges
    /\ \E y \in Years \ {scheduleYear} :
          /\ scheduleYear' = y
          /\ FetchScheduleStart(y)
    /\ yearChanges' = yearChanges + 1
    /\ UNCHANGED <<schedulePc, schedule, completedRaces, clickedRace,
                   raceResults, isModalOpen, resultsInflight, clicks,
                   homeVars, driversVars, tireVars, racesVars, statsVars,
                   standingsPageVars,
                   countdownVars>>

\* handleRaceClick(schedule[i]) up to its return or its await.
ScheduleClickOn(i) ==
    /\ schedulePc = "mounted"
    /\ ScheduleView = "main"
    /\ clicks < MaxClicks
    /\ clicks' = clicks + 1
    /\ resultsInflight' =
          IF IsRaceCompleted(schedule[i].date)
          THEN [resultsInflight EXCEPT ![scheduleYear][schedule[i]] = @ + 1]
          ELSE resultsInflight
    /\ UNCHANGED <<schedulePc, scheduleYear, schedule, completedRaces,
                   scheduleLoading, scheduleError, scheduleFetches, clickedRace,
                   raceResults, isModalOpen, yearChanges,
                   homeVars, driversVars, tireVars, racesVars, statsVars,
                   standingsPageVars,
                   countdownVars>>

\* A click on one of the race cards.
ScheduleRaceClick == \E i \in 1..Len(schedule) : ScheduleClickOn(i)

\* A /race-results response is ok.
ScheduleResultsOk ==
    /\ \E y \in Years : \E race \in ScheduleRaces :
          /\ resultsInflight[y][race] > 0
          /\ resultsInflight' = [resultsInflight EXCEPT ![y][race] = @ - 1]
          /\ \E present \in BOOLEAN :
                LET next == HandleRaceResponse(
                               [raceResults |-> raceResults,
                                selectedRace |-> clickedRace,
                                isModalOpen |-> isModalOpen], y, race, present)
                IN /\ raceResults' = next.raceResults
                   /\ clickedRace' = next.selectedRace
                   /\ isModalOpen' = next.isModalOpen
    /\ UNCHANGED <<schedulePc, scheduleYear, schedule, completedRaces,
                   scheduleLoading, scheduleError, scheduleFetches, clicks,
                   yearChanges, homeVars, driversVars, tireVars, racesVars,
                   statsVars, standingsPageVars,
                   countdownVars>>

\* A /race-results response is not ok: throw, catch, setError.
ScheduleResultsFail ==
    /\ \E y \in Years : \E race \in ScheduleRaces :
          /\ resultsInflight[y][race] > 0
          /\ resultsInflight' = [resultsInflight EXCEPT ![y][race] = @ - 1]
    /\ scheduleError' = "Failed to load race results"
    /\ UNCHANGED <<schedulePc, scheduleYear, schedule, completedRaces,
                   scheduleLoading, scheduleFetches, clickedRace, raceResults,
                   isModalOpen, clicks, yearChanges,
                   homeVars, driversVars, tireVars, racesVars, statsVars,
                   standingsPageVars,
                   countdownVars>>

\* onClose of the modal: setIsModalOpen(false).
ScheduleCloseModal ==
    /\ schedulePc = "mounted"
    /\ ModalShown
    /\ isModalOpen' = FALSE
    /\ UNCHANGED <<schedulePc, scheduleYear, schedule, completedRaces,
                   scheduleLoading, scheduleError, scheduleFetches, clickedRace,
                   raceResults, resultsInflight, clicks, yearChanges,
                   homeVars, driversVars, tireVars, racesVars, statsVars,
                   standingsPageVars,
                   countdownVars>>

\* fetchStandings up to its first await, for the year `year`.
FetchStandingsStart(year) ==
    /\ standingsLoading' = TRUE
    /\ standingsError' = NoError
    /\ standingsRuns' = [standingsRuns EXCEPT ![year]["standings"] = @ + 1]

\* Standings is mounted: the effect on [currentYear] runs fetchStandings.
StandingsMount ==
    /\ standingsPc = "unmounted"
    /\ homePc = "unmounted"
    /\ driversPc = "unmounted"
    /\ tirePc = "unmounted"
    /\ racesPc = "unmounted"
    /\ schedulePc = "unmounted"
    /\ standingsPc' = "mounted"
    /\ FetchStandingsStart(currentYear)
    /\ UNCHANGED <<currentYear, driverStandings, constructorStandings,
                   standingsYearChanges, homeVars, driversVars, tireVars,
                   racesVars, scheduleVars, statsVars,
                   countdownVars>>

\* The year selector (always rendered): setCurrentYear(year) and the effect
\* on [currentYear].
StandingsYearChange ==
    /\ standingsPc = "mounted"
    /\ standingsYearChanges < MaxStandingsYearChanges
    /\ \E y \in Years \ {currentYear} :
          /\ currentYear' = y
          /\ FetchStandingsStart(y)
    /\ standingsYearChanges' = standingsYearChanges + 1
    /\ UNCHANGED <<standingsPc, driverStandings, constructorStandings,
                   homeVars, driversVars, tireVars, racesVars, scheduleVars,
                   statsVars,
                   countdownVars>>

\* The /standings response of a run is ok: setDriverStandings(driverData),
\* and the run goes on to its second await.
StandingsDriverOk ==
    /\ \E y \in Years :
          /\ standingsRuns[y]["standings"] > 0
          /\ standingsRuns' = [standingsRuns EXCEPT
                                 ![y]["standings"] = @ - 1,
                                 ![y]["team_standings"] = @ + 1]
          /\ driverStandings' = StandingsOfYear(y)
    /\ UNCHANGED <<standingsPc, currentYear, constructorStandings,
                   standingsLoading, standingsError, standingsYearChanges,
                   homeVars, driversVars, tireVars, racesVars, scheduleVars,
                   statsVars,
                   countdownVars>>

\* The /standings response of a run is not ok: throw, catch, finally.
StandingsDriverFail ==
    /\ \E y \in Years :
          /\ standingsRuns[y]["standings"] > 0
          /\ standingsRuns' = [standingsRuns EXCEPT ![y]["standings"] = @ - 1]
    /\ standingsError' = "Failed to fetch driver standings"
    /\ standingsLoading' = FALSE
    /\ UNCHANGED <<standingsPc, currentYear, driverStandings,
                   constructorStandings, standingsYearChanges,
                   homeVars, driversVars, tireVars, racesVars, scheduleVars,
                   statsVars,
                   countdownVars>>

\* The /team_standings response of a run is ok:
\* setConstructorStandings(constructorData), finally.
StandingsConstructorOk ==
    /\ \E y \in Years :
          /\ standingsRuns[y]["team_standings"] > 0
          /\ standingsRuns' = [standingsRuns EXCEPT ![y]["team_standings"] = @ - 1]
          /\ constructorStandings' = StandingsOfYear(y)
    /\ standingsLoading' = FALSE
    /\ UNCHANGED <<standingsPc, currentYear, driverStandings, standingsError,
                   standingsYearChanges, homeVars, driversVars, tireVars,
                   racesVars, scheduleVars, statsVars,
                   countdownVars>>

\* The /team_standings response of a run is not ok: throw, catch, finally.
StandingsConstructorFail ==
    /\ \E y \in Years :
          /\ standingsRuns[y]["team_standings"] > 0
          /\ standingsRuns' = [standingsRuns EXCEPT ![y]["team_standings"] = @ - 1]
    /\ standingsError' = "Failed to fetch constructor standings"
    /\ standingsLoading' = FALSE
    /\ UNCHANGED <<standingsPc, currentYear, driverStandings,
                   constructorStandings, standingsYearChanges,
                   homeVars, driversVars, tireVars, racesVars, scheduleVars,
                   statsVars,
                   countdownVars>>

StandingsNext ==
    \/ StandingsMount
    \/ StandingsYearChange
    \/ StandingsDriverOk
    \/ StandingsDriverFail
    \/ StandingsConstructorOk
    \/ StandingsConstructorFail

HomeNext ==
    \/ HomeFetchData
    \/ HomeStandingsOk
    \/ HomeStandingsFail

HomeCountdownNext ==
    \/ HomeFetchData
    \/ HomeStandingsOkBrief
    \/ HomeStandingsFail
    \/ HomeScheduleOk
    \/ HomeScheduleFail
    \/ HomeQuickStatsOk
    \/ HomeQuickStatsFail
    \/ HomeCountdownTick
    \/ HomeUnmount

DriversNext ==
    \/ DriversFetchData
    \/ DriversFetchOk
    \/ DriversFetchFail

DriverStatsNext ==
    \/ DriversFetchData
    \/ DriversFetchOkUnranked
    \/ DriversFetchFail
    \/ DriverClick
    \/ DriverStatsOk
    \/ DriverStatsFail
    \/ DriverCloseModal

Next ==
    \/ HomeFetchData
    \/ HomeStandingsOk
    \/ HomeStandingsFail
    \/ DriversFetchData
    \/ DriversFetchOk
    \/ DriversFetchFail

TireNext == TireMount

TireLifecycleNext ==
    \/ TireMountSample
    \/ TireChange
    \/ TireUnmount

ScheduleNext ==
    \/ ScheduleMount
    \/ ScheduleFetchOk
    \/ ScheduleFetchFail
    \/ ScheduleYearChange
    \/ ScheduleRaceClick
    \/ ScheduleResultsOk
    \/ ScheduleResultsFail
    \/ ScheduleCloseModal

RacesNext ==
    \/ RacesMount
    \/ RacesFetchOk
    \/ RacesFetchFail
    \/ SelectRace
    \/ PositionsOk
    \/ PositionsFail
    \/ TeamPaceOk
    \/ TeamPaceFail
    \/ TireStrategyOk
    \/ TireStrategyFail

SpecTire == Init /\ [][TireNext]_vars
SpecTireLifecycle == Init /\ [][TireLifecycleNext]_vars
SpecRaces == Init /\ [][RacesNext]_vars
SpecSchedule == Init /\ [][ScheduleNext]_vars
SpecDriverStats == Init /\ [][DriverStatsNext]_vars
SpecStandings == Init /\ [][StandingsNext]_vars
SpecHome == Init /\ [][HomeNext]_vars
SpecHomeCountdown == Init /\ [][HomeCountdownNext]_vars
SpecDrivers == Init /\ [][DriversNext]_vars
Spec == Init /\ [][Next]_vars

\* ------------------------------------------------------------------------
\* Properties: constructor standings of the Home page
\* ------------------------------------------------------------------------
HomeRendered == homePc = "schedule"

TeamsOf(list) == {list[i].team : i \in 1..Len(list)}

DriversOfTeam(list, team) ==
    {list[i].driver_name : i \in {j \in 1..Len(list) : list[j].team = team}}

\* The first record of `name` under `team` in input order.
FirstRecordOf(list, team, name) ==
    list[CHOOSE i \in 1..Len(list) :
            /\ list[i].team = team
            /\ list[i].driver_name = name
            /\ \A j \in 1..(i - 1) :
                  ~(list[j].team = team /\ list[j].driver_name = name)]

RECURSIVE SumOverDrivers(_, _, _)
SumOverDrivers(names, list, team) ==
    IF names = {} THEN 0
    ELSE LET n == CHOOSE x \in names : TRUE
         IN FirstRecordOf(list, team, n).total_points
              + SumOverDrivers(names \ {n}, list, team)

\* Sum of total_points over the distinct driver names listed under `team`.
SumOfDistinctDrivers(list, team) ==
    SumOverDrivers(DriversOfTeam(list, team), list, team)

TeamTotal(groups, team) == groups[GroupIndex(groups, team)].total_points

RECURSIVE SumOfTotals(_, _)
SumOfTotals(groups, k) ==
    IF k > Len(groups) THEN 0
    ELSE groups[k].total_points + SumOfTotals(groups, k + 1)

\* C1: the total reported for a team is the sum of total_points over the
\* distinct driver names listed under that team (a name that is listed twice
\* counts with its first record), for every team of the fold and every card
\* shown; one more record of a driver already listed under a team, folded in
\* behind the list, leaves that team's total unchanged.
C1_TeamTotalIsSumOfDistinctDrivers ==
    HomeRendered =>
      LET groups == ConstructorGroups(standings)
      IN /\ \A i \in 1..Len(constructorsShown) :
               constructorsShown[i].total_points
                 = SumOfDistinctDrivers(standings, constructorsShown[i].team)
         /\ \A i \in 1..Len(groups) :
               groups[i].total_points = SumOfDistinctDrivers(standings, groups[i].team)
         /\ \A k \in 1..Len(standings) : \A p \in PointValues :
               LET dup == [standings[k] EXCEPT !.total_points = p]
               IN TeamTotal(ReduceStep(groups, dup), dup.team)
                    = TeamTotal(groups, dup.team)

\* A list that repeats a driver under a team which has a second driver too.
C1_Witness ==
    /\ HomeRendered
    /\ \E i, j \in 1..Len(standings) :
          /\ i < j
          /\ standings[i].team = standings[j].team
          /\ standings[i].driver_name = standings[j].driver_name
    /\ \E i \in 1..Len(constructorsShown) :
          /\ Len(constructorsShown[i].drivers) = 2
          /\ Cardinality({j \in 1..Len(standings) :
                 standings[j].team = constructorsShown[i].team}) > 2

\* The sums obtained by counting every distinct driver name of the list once,
\* with the total_points of any one of its records.
PointsOfDriver(list, name) ==
    {list[i].total_points : i \in {j \in 1..Len(list) : list[j].driver_name = name}}

RECURSIVE SumsCountingOnce(_, _)
SumsCountingOnce(names, list) ==
    IF names = {} THEN {0}
    ELSE LET n == CHOOSE x \in names : TRUE
         IN {p + rest : p \in PointsOfDriver(list, n),
                        rest \in SumsCountingOnce(names \ {n}, list)}

\* C2: every distinct driver name contributes its total_points to the
\* constructor standings exactly once, also when it is listed under two
\* teams: the totals of all constructors add up to the sum of total_points
\* over the distinct driver names of the input.
C2_EachDriverCountedOnce ==
    HomeRendered =>
      SumOfTotals(ConstructorGroups(standings), 1)
        \in SumsCountingOnce({standings[i].driver_name : i \in 1..Len(standings)},
                             standings)

\* C3: the constructors are listed by summed total_points descending, and
\* teams with equal sums are listed in ascending team-name order.
C3_RankedByPointsThenTeamName ==
    HomeRendered =>
      \A i, j \in 1..Len(constructorsShown) :
         i < j =>
           \/ constructorsShown[i].total_points > constructorsShown[j].total_points
           \/ /\ constructorsShown[i].total_points = constructorsShown[j].total_points
              /\ FirstCodeUnit(constructorsShown[i].team)
                   < FirstCodeUnit(constructorsShown[j].team)

Permuted(list, p) == [i \in 1..Len(list) |-> list[p[i]]]

\* The ranked teams with their totals.
Ranking(shown) ==
    [i \in 1..Len(shown) |-> <<shown[i].team, shown[i].total_points>>]

\* C4: every permutation of the input list yields the same teams with the
\* same totals in the same ranked order.
C4_ConstructorsIndependentOfInputOrder ==
    HomeRendered =>
      \A p \in Permutations(1..Len(standings)) :
         Ranking(ConstructorStandings(Permuted(standings, p)))
           = Ranking(constructorsShown)

\* ------------------------------------------------------------------------
\* Properties: driver list of the Drivers page
\* ------------------------------------------------------------------------
DriversListed == driversPc = "done"

LowerFirst(name) == ToLowerCase(FirstCodeUnit(name))

\* C5 as stated: total_points descending is the primary key of the driver
\* list, an earlier entry never has fewer total_points than a later one.
C5_ListedByTotalPointsDescending ==
    DriversListed =>
      \A i, j \in 1..Len(drivers) :
         i < j => drivers[i].total_points >= drivers[j].total_points

\* C5 amended: the position carried over from the standings feed, ascending,
\* is the primary key of the driver list: of two entries that both carry a
\* position the earlier one has the smaller or equal position, whatever
\* their total_points.
C5_ListedByPositionAscending ==
    DriversListed =>
      \A i, j \in 1..Len(drivers) :
         (i < j /\ drivers[i].position # Null /\ drivers[j].position # Null)
            => drivers[i].position <= drivers[j].position

\* Two ranked entries, the better placed one with fewer points, that the
\* sort had to swap.
C5_Witness ==
    /\ DriversListed
    /\ Len(drivers) = 2
    /\ drivers[1].position # Null /\ drivers[2].position # Null
    /\ drivers[1].position < drivers[2].position
    /\ drivers[1].total_points < drivers[2].total_points
    /\ driversData[1].driver_name = drivers[2].driver_name

\* C6: among entries with equal total_points, every entry that carries a
\* position is listed before every entry that lacks one.
C6_RankedBeforeUnrankedOnEqualPoints ==
    DriversListed =>
      \A i, j \in 1..Len(drivers) :
         (i < j /\ drivers[i].total_points = drivers[j].total_points
                /\ drivers[j].position # Null)
            => drivers[i].position # Null

\* Equal points, the entry without a position came first in the response.
C6_Witness ==
    /\ DriversListed
    /\ Len(drivers) = 2
    /\ drivers[1].total_points = drivers[2].total_points
    /\ drivers[1].total_points > 0
    /\ drivers[1].position # Null
    /\ drivers[2].position = Null
    /\ driversData[1].driver_name = drivers[2].driver_name

\* C7: entries that both lack a position are listed in ascending order of
\* driver name compared case-insensitively.
C7_UnrankedByNameCaseInsensitive ==
    DriversListed =>
      \A i, j \in 1..Len(drivers) :
         (i < j /\ drivers[i].position = Null /\ drivers[j].position = Null)
            => LowerFirst(drivers[i].driver_name) <= LowerFirst(drivers[j].driver_name)

\* Bravo and alpha, both on zero points without a position, Bravo first in
\* the response: alpha is listed first.
C7_Witness ==
    /\ DriversListed
    /\ Len(drivers) = 2
    /\ driversData[1].driver_name = "Bravo"
    /\ driversData[2].driver_name = "alpha"
    /\ drivers[1].driver_name = "alpha"
    /\ drivers[2].driver_name = "Bravo"
    /\ \A i \in 1..2 : drivers[i].position = Null /\ drivers[i].total_points = 0

\* C8: every permutation of the drivers list and of the standings list
\* yields the identical merged and sorted driver list.
C8_DriversIndependentOfInputOrder ==
    DriversListed =>
      \A p \in Permutations(1..Len(driversData)) :
      \A q \in Permutations(1..Len(standingsData)) :
         MergeAndSort(Permuted(driversData, p), Permuted(standingsData, q)) = drivers

\* C9: every merged entry has total_points = points + sprint points, with
\* both components non-negative.
C9_TotalIsPointsPlusSprint ==
    DriversListed =>
      \A i \in 1..Len(drivers) :
         /\ drivers[i].total_points = drivers[i].points + drivers[i].sprintPoints
         /\ drivers[i].points >= 0
         /\ drivers[i].sprintPoints >= 0

\* C10: an empty list of driver entries gives an empty list of constructors
\* on the Home page and an empty driver list on the Drivers page.
C10_EmptyInputGivesEmptyList ==
    /\ (HomeRendered /\ standings = <<>>) => constructorsShown = <<>>
    /\ (DriversListed /\ driversData = <<>>) => drivers = <<>>

C10_Witness ==
    /\ HomeRendered
    /\ standings = <<>>
    /\ constructorsShown = <<>>

\* The standings record that the merge read for a listed driver: the last
\* record of that name in the standings response, {} when there is none.
StandingRead(name) ==
    LET slot == StandingsMap(standingsData)[name]
    IN IF slot = <<>> THEN EmptyObject ELSE slot[1]

\* C16: only points fields are defaulted to zero by the merge: a missing
\* participated-race count or position is never turned into zero, and a
\* position that is present is carried over.
C16_OnlyPointsFieldsDefaultToZero ==
    DriversListed =>
      \A i \in 1..Len(drivers) :
         LET standing == StandingRead(drivers[i].driver_name)
         IN /\ ~IsNumber(standing.races_participated)
                  => drivers[i].races_participated # 0
            /\ ~IsNumber(standing.position) => drivers[i].position # 0
            /\ IsNumber(standing.position)
                  => drivers[i].position = standing.position

\* ------------------------------------------------------------------------
\* Properties: tire strategy
\* ------------------------------------------------------------------------
TireBuilt == tirePc = "mounted" /\ tireData.kind = "object"

WellFormed(stint) ==
    stint # NullStint /\ IsNumber(stint.start_lap) /\ IsNumber(stint.end_lap)

\* The stint list of the k-th driver, empty when data[driver] is no array.
StintsOf(data, k) == IF data.lists[k].isArray THEN data.lists[k].items ELSE <<>>

\* The positions of the datasets of `driver`, in emission order.
EmittedFor(datasets, driver) ==
    SelectSeq(datasets, LAMBDA d : d.label = driver)

\* C11: the stints emitted for a driver are in ascending start_lap order and
\* pairwise non-overlapping.
C11_EmittedStintsSortedAndDisjoint ==
    TireBuilt =>
      \A k \in 1..Len(tireData.keys) :
         LET out == EmittedFor(tireDatasets, tireData.keys[k])
         IN \A i, j \in 1..Len(out) :
               i < j => /\ out[i].x <= out[j].x
                        /\ out[i].x + out[i].width <= out[j].x

\* C12: of two overlapping stints of a driver the earlier-starting one is
\* kept and the later one is rejected.
C12_OverlappingLaterStintRejected ==
    TireBuilt =>
      \A k \in 1..Len(tireData.keys) :
         LET given == StintsOf(tireData, k)
             out == EmittedFor(tireDatasets, tireData.keys[k])
         IN \A i, j \in 1..Len(given) :
               (/\ WellFormed(given[i]) /\ WellFormed(given[j])
                /\ given[i].start_lap < given[j].start_lap
                /\ given[i].end_lap > given[j].start_lap)
               => /\ \E o \in 1..Len(out) :
                        /\ out[o].x = given[i].start_lap
                        /\ out[o].x + out[o].width = given[i].end_lap
                  /\ \A o \in 1..Len(out) : out[o].x # given[j].start_lap

\* The end laps of all stints that have a numeric end_lap.
NumericEndLaps(data) ==
    UNION {{StintsOf(data, k)[i].end_lap : i \in 1..Len(StintsOf(data, k))} :
              k \in 1..Len(data.keys)} \ {Undefined, Null}

\* C13: maxLaps is the maximum end_lap over all stints of all drivers that
\* have a numeric end_lap (0 when there is none).
C13_MaxLapsIsMaximumEndLap ==
    TireBuilt =>
      LET ends == NumericEndLaps(tireData)
      IN IF ends = {} THEN tireMaxLaps = 0
         ELSE tireMaxLaps = CHOOSE m \in ends : \A e \in ends : e <= m

\* C14: when no driver comes with a non-empty array of stints, no stint is
\* emitted, no chart is created and the component shows the not-available
\* view.
C14_NoStintsShowsNotAvailable ==
    (TireBuilt /\ \A k \in 1..Len(tireData.keys) : StintsOf(tireData, k) = <<>>)
    => /\ tireDatasets = <<>>
       /\ chartInstance = <<>>
       /\ TireView(tireData) = "notAvailable"

\* C15: the datasets of a driver are exactly the well-formed stints of that
\* driver's list, in list order and with their laps and compound unchanged;
\* nothing else is emitted.
C15_MalformedStintDroppedOthersKept ==
    TireBuilt =>
      /\ \A k \in 1..Len(tireData.keys) :
            LET kept == SelectSeq(StintsOf(tireData, k), WellFormed)
                out == EmittedFor(tireDatasets, tireData.keys[k])
            IN /\ Len(out) = Len(kept)
               /\ \A i \in 1..Len(kept) :
                     /\ out[i].x = kept[i].start_lap
                     /\ out[i].x + out[i].width = kept[i].end_lap
                     /\ out[i].compound = kept[i].compound
      /\ \A d \in 1..Len(tireDatasets) :
            \E k \in 1..Len(tireData.keys) : tireDatasets[d].label = tireData.keys[k]

\* Two drivers; the first one's list holds a well-formed stint followed by a
\* malformed one, and the stints of both drivers are in the datasets.
C15_Witness ==
    /\ TireBuilt
    /\ Len(tireData.keys) = 2
    /\ Len(StintsOf(tireData, 1)) = 2
    /\ WellFormed(StintsOf(tireData, 1)[1])
    /\ ~WellFormed(StintsOf(tireData, 1)[2])
    /\ \E i \in 1..Len(StintsOf(tireData, 2)) : WellFormed(StintsOf(tireData, 2)[i])
    /\ Len(tireDatasets) >= 2
    /\ chartInstance # <<>>

\* ------------------------------------------------------------------------
\* Properties: Races page
\* ------------------------------------------------------------------------
RacesMounted == racesPc = "mounted"

\* C17: while no race is selected, the round-scoped fetches that the effects
\* made have each ended in an error recorded in the state of their section.
C17_NoRoundEndsInMissingParameterError ==
    (RacesMounted /\ selectedRace = <<>>)
    => /\ error # NoError
       /\ paceError # NoError
       /\ strategyError # NoError

\* The position chart is on screen.
PositionChartShown ==
    /\ RacesMounted
    /\ selectedRace # <<>>
    /\ ~loading
    /\ error = NoError
    /\ positionData # <<>>

Min(a, b) == IF a < b THEN a ELSE b

\* C18: in the chart data of the position chart, the lap numbers (labels)
\* that the positions of a driver are paired with are strictly increasing.
C18_LapNumbersStrictlyIncreasing ==
    PositionChartShown =>
      LET chart == ChartData(positionData)[1]
      IN \A d \in 1..Len(chart.datasets) :
            \A i, j \in 1..Min(Len(chart.labels), Len(chart.datasets[d].data)) :
               i < j => chart.labels[i] < chart.labels[j]

\* A race whose date is not before the day of use.
NotYetOccurred(race) == race.date >= Now

\* C19: a race that has not yet occurred is never the selected race, and no
\* round-scoped request is awaiting a response for its round.
C19_FutureRaceNeverSelected ==
    RacesMounted =>
      /\ selectedRace = <<>> \/ ~NotYetOccurred(selectedRace[1])
      /\ \A i \in 1..Len(races) :
            NotYetOccurred(races[i])
               => \A k \in Kinds : inflight[k][races[i].round] = 0

\* C21: a tire-strategy response that is not ok leaves strategyError
\* non-null; one that is ok leaves strategyError null, and when its body is
\* the empty mapping the section shows the not-available view.
C21_StrategyNoDataDistinctFromError ==
    [][/\ TireStrategyFail => strategyError' # NoError
       /\ TireStrategyOk =>
            /\ strategyError' = NoError
            /\ Len(tireStrategyData'[1].body.keys) = 0
                 => StrategyView(loadingStrategy', strategyError',
                                 tireStrategyData') = "notAvailable"]_vars

\* No request of the page is awaiting its response.
RacesQuiescent ==
    /\ ~racesInflight
    /\ \A k \in Kinds : \A r \in Rounds : inflight[k][r] = 0

\* C23: once no request is awaiting its response and none has left an error,
\* positionData, teamPaceData and tireStrategyData each hold the response to
\* the request made for the selected race.
C23_DataIsOfCurrentSelection ==
    (/\ RacesMounted
     /\ selectedRace # <<>>
     /\ RacesQuiescent
     /\ error = NoError /\ paceError = NoError /\ strategyError = NoError)
    => /\ positionData # <<>>
       /\ positionData[1].round = selectedRace[1].round
       /\ teamPaceData # <<>>
       /\ teamPaceData[1].round = selectedRace[1].round
       /\ tireStrategyData # <<>>
       /\ tireStrategyData[1].round = selectedRace[1].round

\* C27: while a positions request for the selected race is awaiting its
\* response, loading is true (the spinner is shown, not the chart).
C27_LoadingWhilePositionsPending ==
    (/\ RacesMounted
     /\ selectedRace # <<>>
     /\ inflight["positions"][selectedRace[1].round] > 0)
    => loading

NotCompletedDate(raceDate) ==
    \/ raceDate = Undefined
    \/ raceDate = UnknownDate
    \/ (raceDate >= 0 /\ raceDate >= Now)

\* C22: a click on a race that is not completed issues no request and leaves
\* raceResults, selectedRace, isModalOpen and error unchanged.
C22_ClickOnUncompletedRaceHasNoEffect ==
    [][\A i \in 1..Len(schedule) :
          (ScheduleClickOn(i) /\ NotCompletedDate(schedule[i].date))
          => UNCHANGED <<resultsInflight, raceResults, clickedRace,
                         isModalOpen, scheduleError>>]_vars

\* Both clicks allowed were made on the schedule with its uncompleted races
\* and nothing was requested, selected, opened or reported.
C22_Witness ==
    /\ schedulePc = "mounted"
    /\ Len(schedule) > 0
    /\ clicks = MaxClicks
    /\ \A y \in Years : \A race \in ScheduleRaces : resultsInflight[y][race] = 0
    /\ raceResults = <<>>
    /\ clickedRace = <<>>
    /\ ~isModalOpen
    /\ scheduleError = NoError

\* C25: whenever the modal is open with results, raceResults and
\* selectedRace are those of one race-results response; and a
\* race-results response that is not ok does not open the modal.
C25_ModalShowsResultsOfSelectedRace ==
    /\ [](ModalShown =>
            /\ clickedRace # <<>>
            /\ raceResults[1].round = clickedRace[1].round
            /\ raceResults[1].year = clickedRace[1].year)
    /\ [][ScheduleResultsFail => isModalOpen' = isModalOpen]_vars

\* Two races were clicked, the responses came back in the other order, and
\* the modal shows the race whose response came last.
C25_Witness ==
    /\ ModalShown
    /\ clicks = 2
    /\ \A y \in Years : \A race \in ScheduleRaces : resultsInflight[y][race] = 0
    /\ clickedRace[1].round = 1
    /\ raceResults[1].round = 1

\* ------------------------------------------------------------------------
\* Properties: driver statistics modal of the Drivers page
\* ------------------------------------------------------------------------
\* C24: whenever the modal displays statistics, they are the response to the
\* request made for the selected driver.
C24_StatsAreOfSelectedDriver ==
    StatsModalShown => driverStats[1].driver_name = selectedDriver[1].driver_name

\* ------------------------------------------------------------------------
\* Properties: Standings page
\* ------------------------------------------------------------------------
\* C26: when the standings are rendered (loading false, error null) and no
\* run of fetchStandings is suspended, driverStandings and
\* constructorStandings both hold the standings of currentYear.
C26_StandingsAreOfCurrentYear ==
    (/\ standingsPc = "mounted"
     /\ ~standingsLoading
     /\ standingsError = NoError
     /\ \A y \in Years : \A a \in StandingsAwaits : standingsRuns[y][a] = 0)
    => /\ driverStandings = StandingsOfYear(currentYear)
       /\ constructorStandings = StandingsOfYear(currentYear)

\* ------------------------------------------------------------------------
\* Properties: chart instances of TireStrategyChart
\* ------------------------------------------------------------------------
\* C28: at most one chart that was created has not been destroyed, and none
\* after the component is unmounted.
C28_AtMostOneLiveChart ==
    /\ Cardinality(liveCharts) <= 1
    /\ tirePc = "removed" => liveCharts = {}

\* The component was unmounted after three renders, of which the second and
\* the third each created a chart.
C28_Witness ==
    /\ tirePc = "removed"
    /\ tireRuns = 3
    /\ chartInstance # <<>>
    /\ chartInstance[1].id = 3
    /\ tireData.kind = "object"
    /\ liveCharts = {}

\* ------------------------------------------------------------------------
\* Properties: countdown interval of the Home page
\* ------------------------------------------------------------------------
\* C29: the unmount of Home clears the countdown interval that was started,
\* and no countdown update runs once Home is unmounted.
C29_IntervalClearedAtUnmount ==
    [][/\ HomeUnmount => ~countdownTimer'
       /\ HomeCountdownTick => ~homeRemoved]_vars

\* ------------------------------------------------------------------------
\* Properties: repeated records of one driver under one team
\* ------------------------------------------------------------------------
\* Positions of the records of `name` under `team`.
RecordsOf(list, team, name) ==
    {k \in 1..Len(list) : list[k].team = team /\ list[k].driver_name = name}

\* `name` is listed under `team` several times with different total_points.
RepeatedWithOtherPoints(list, team, name) ==
    \E i, j \in RecordsOf(list, team, name) :
        list[i].total_points # list[j].total_points

\* The list without the records of `name` under `team` behind the first one.
RECURSIVE WithoutLaterRecords(_, _, _, _)
WithoutLaterRecords(list, team, name, k) ==
    IF k > Len(list) THEN <<>>
    ELSE IF k \in RecordsOf(list, team, name)
            /\ \E i \in RecordsOf(list, team, name) : i < k
         THEN WithoutLaterRecords(list, team, name, k + 1)
         ELSE <<list[k]>> \o WithoutLaterRecords(list, team, name, k + 1)

\* C30: when a team lists one driver name several times with different
\* total_points, the team's total is the one the list gives without the
\* later records of that name, that is, with the first record's points
\* only, and the team's drivers hold the name once.
C30_FirstRecordOfRepeatedDriverCounts ==
    HomeRendered =>
      \A team \in TeamNames : \A name \in DriverNames :
         RepeatedWithOtherPoints(standings, team, name) =>
            LET groups == ConstructorGroups(standings)
                first == CHOOSE k \in RecordsOf(standings, team, name) :
                            \A i \in RecordsOf(standings, team, name) : k <= i
                others == SelectSeq(standings,
                             LAMBDA d : d.team = team /\ d.driver_name # name)
                group == groups[GroupIndex(groups, team)]
                ofOthers == IF others = <<>> THEN 0
                            ELSE TeamTotal(ConstructorGroups(others), team)
            IN /\ group.total_points = standings[first].total_points + ofOthers
               /\ group.total_points
                    = TeamTotal(ConstructorGroups(
                                  WithoutLaterRecords(standings, team, name, 1)),
                                team)
               /\ Cardinality({k \in 1..Len(group.drivers) :
                                  group.drivers[k] = name}) = 1
               /\ \A i \in 1..Len(constructorsShown) :
                     constructorsShown[i].team = team
                       => constructorsShown[i].total_points = group.total_points

\* The list names alpha three times under one team, first with 5 points and
\* later with 10, next to Bravo, and the team's card shows 15.
C30_Witness ==
    /\ HomeRendered
    /\ Len(standings) = 4
    /\ \E team \in TeamNames :
          /\ RepeatedWithOtherPoints(standings, team, "alpha")
          /\ Cardinality(RecordsOf(standings, team, "alpha")) = 3
          /\ standings[1].driver_name = "alpha"
          /\ standings[1].total_points = 5
          /\ \E i \in 1..Len(standings) :
                standings[i].team = team /\ standings[i].driver_name = "Bravo"
          /\ \E i \in 1..Len(constructorsShown) :
                /\ constructorsShown[i].team = team
                /\ constructorsShown[i].total_points = 15

====
